---- MODULE Spec2Model ----
(***************************************************************************)
(* pyCalendar: synchronisation of a Google calendar with an ICS export.    *)
(*                                                                         *)
(* Two implementations live in the repository and both are modelled:       *)
(*   - src/main.py: the script main(), which downloads the ICS file,       *)
(*     deletes the upcoming remote events (delete_upcoming_events) and     *)
(*     then inserts the future ICS events                                  *)
(*     (add_ics_events_to_google_calendar);                                *)
(*   - src/google_session.py: the methods of GoogleSession                 *)
(*     (delete_events_from_date, import_events_to_calendar), called by a   *)
(*     caller that chooses their arguments and calls each at most once,    *)
(*     in either order.                                                    *)
(*                                                                         *)
(* Date-times are abstracted to the integers MinTime..MaxTime; MinTime is  *)
(* datetime.min.  The remote calendar is a set of events [id, start,       *)
(* summary]; events().list(timeMin = t, orderBy = startTime) answers the   *)
(* events whose start is at or after t, by ascending start, in one page.   *)
(* Every request to the remote calendar may fail with an HttpError.        *)
(* Nothing but the modelled program changes the remote calendar, and the   *)
(* date-times of the events are comparable with the cutoffs.               *)
(***************************************************************************)
EXTENDS Integers, Sequences, FiniteSets

\* ---------------------------------------------------------------- bounds
MaxTime == 3
MaxRemote == 2
MaxLocal == 2

\* datetime.min, the default of delete_events_from_date's date parameter
MinTime == 0

\* The value of a local that is not assigned yet (outside the time domain)
Unset == 0 - 1

Times == 1..MaxTime
Cutoffs == MinTime..MaxTime

VARIABLES
    pc,                  \* position of the running program
    clock,               \* wall clock, never decreasing
    remote,              \* the events of the remote calendar
    remote0,             \* the remote calendar when the run / the call started
    nextId,              \* next id the remote system assigns
    served,              \* the export the timetable server hands out
    edt,                 \* the file edt.ics on disk
    log,                 \* requests issued to the remote calendar in this run / call
    err,                 \* exception that left the run / the call, or "none"
    now_del,             \* `now` of delete_upcoming_events
    events,              \* the fetched list of remote events
    idx,                 \* position of the running loop
    total,               \* `total` of delete_upcoming_events
    now_add,             \* `now` of add_ics_events_to_google_calendar
    comps,               \* ics_calendar.walk()
    added_events_count,
    rerun,               \* TRUE in the second run of main()
    first,               \* what the first run of main() left
    date,                \* `date` of delete_events_from_date
    min_date,            \* `min_date` of import_events_to_calendar
    in_events,           \* `events` parameter of import_events_to_calendar
    filtered_events,
    called,              \* the GoogleSession methods the caller has called
    max_events,          \* `max_events` of add_ics_events_to_google_calendar
    component,           \* the component a request body is built from
    google_event,        \* the request body built from it
    calendars,           \* the calendars of the remote account
    returned,            \* what the create_calendar calls returned: <<name, id>>
    calls,               \* number of create_calendar calls made
    directory,           \* the files of the download directory, oldest first
    initial_files,       \* `initial_files` of download_ics_file
    wait_time,           \* `wait_time` of wait_for_download
    elapsed_time,        \* `elapsed_time` of wait_for_download
    file_path            \* what wait_for_download returns: {} stands for None

\* The state of main() and of the GoogleSession calls
syncVars == <<pc, clock, remote, remote0, nextId, served, edt, log, err, now_del, events, idx,
              total, now_add, comps, added_events_count, rerun, first, date, min_date,
              in_events, filtered_events, called>>

bodyVars == <<component, google_event>>
calVars == <<calendars, returned, calls>>
waitVars == <<directory, initial_files, wait_time, elapsed_time, file_path>>

\* What main() and the GoogleSession event methods never assign
otherVars == <<max_events, bodyVars, calVars, waitVars>>

vars == <<syncVars, otherVars>>

mainLocals == <<now_del, events, idx, total, now_add, comps, added_events_count>>
gsVars == <<date, min_date, in_events, filtered_events, called>>

\* ------------------------------------------------------------ data model
\* The elements of a sequence
Range(s) == {s[i] : i \in 1..Len(s)}

\* An ICS component: a VEVENT with its DTSTART and its SUMMARY, or another kind.
\* value tells what DTSTART holds: a date-time, a date alone (an all-day
\* event, dtstart is then its day), or nothing (the property is missing)
VEvent(s, t) == [name |-> "VEVENT", dtstart |-> t, summary |-> s, value |-> "datetime"]
AllDayEvent(s, t) == [name |-> "VEVENT", dtstart |-> t, summary |-> s, value |-> "date"]
NoStartEvent(s) == [name |-> "VEVENT", dtstart |-> Unset, summary |-> s, value |-> "missing"]
RootComponent == [name |-> "VCALENDAR", dtstart |-> Unset, summary |-> 0, value |-> "missing"]

\* The components at position s of a file: titles are made distinct by position;
\* the all-day events are on the last day
ComponentsAt(s) ==
    {VEvent(s, t) : t \in Times} \cup {AllDayEvent(s, MaxTime), NoStartEvent(s)}

RECURSIVE FilesOfLen(_)
FilesOfLen(n) ==
    IF n = 0 THEN {<<>>}
    ELSE {Append(f, c) : f \in FilesOfLen(n - 1), c \in ComponentsAt(n)}

\* The parsable ICS files
Files == UNION {FilesOfLen(n) : n \in 0..MaxLocal}

\* edt.ics on disk: absent, present but not parsable, or a parsable calendar
NoFile == [state |-> "missing", content |-> <<>>]
Garbage == [state |-> "garbage", content |-> <<>>]
IcsFile(f) == [state |-> "ics", content |-> f]

\* Event lists a caller hands to import_events_to_calendar: each event has a
\* start.dateTime
EventLists == {f \in Files : \A i \in 1..Len(f) : f[i].value = "datetime"}

RemoteEvent(i, t, s) == [id |-> i, start |-> t, summary |-> s]

\* Initial remote calendars: ids are opaque, so they are numbered by start
RECURSIVE StartsOfLen(_)
StartsOfLen(n) ==
    IF n = 0 THEN {<<>>}
    ELSE {Append(f, t) : f \in StartsOfLen(n - 1), t \in Times}

InitialRemotes ==
    {{RemoteEvent(i, f[i], 0) : i \in 1..Len(f)} :
        f \in {g \in UNION {StartsOfLen(n) : n \in 0..MaxRemote} :
                  \A i \in 1..Len(g), j \in 1..Len(g) : i < j => g[i] <= g[j]}}

\* ------------------------------------------------------- remote calendar
\* events().list(timeMin = t): the events of the window
Window(cal, t) == {e \in cal : e.start >= t}

\* The event of S the listing answers first: the earliest start, and among
\* equal starts the oldest id (the code does not depend on the order of ties)
Earliest(S) ==
    CHOOSE e \in S : \A o \in S : e.start < o.start \/ (e.start = o.start /\ e.id <= o.id)

\* orderBy = 'startTime': the events by ascending start
RECURSIVE Listing(_)
Listing(S) ==
    IF S = {} THEN <<>>
    ELSE <<Earliest(S)>> \o Listing(S \ {Earliest(S)})

Request(op, ev, ok) == [op |-> op, ev |-> ev, ok |-> ok]

\* A delete request that answers without removing the event
DeleteEventKept(cal, i) == cal

\* events().delete(eventId = i)
DeleteEvent(cal, i) == {e \in cal : e.id # i}

\* events().insert(body = google_event)
InsertEvent(cal, c) == cal \cup {RemoteEvent(nextId, c.dtstart, c.summary)}

\* --------------------------------------------------------------- main.py
\* main() with the two phases exchanged: the events are added, then deleted
PhaseAfterSwapped(p) ==
    CASE p = "download" -> "add_init"
      [] p = "add" -> "del_get"
      [] p = "delete" -> "done"

\* The order of the phases of main()
PhaseAfter(p) ==
    CASE p = "download" -> "del_get"
      [] p = "delete" -> "add_init"
      [] p = "add" -> "done"

\* download_ics_file: the download succeeds and the served export becomes
\* edt.ics, or it fails; the exception is caught and printed, main() goes on
Download ==
    /\ pc = "download"
    /\ \/ edt' = served
       \/ UNCHANGED edt
    /\ pc' = PhaseAfter("download")
    /\ UNCHANGED <<clock, remote, remote0, nextId, served, otherVars, log, err, mainLocals, rerun, first, gsVars>>

\* delete_upcoming_events, calendars().get: an HttpError ends the function
DelGet ==
    /\ pc = "del_get"
    /\ \E ok \in BOOLEAN :
         /\ log' = Append(log, Request("get", 0, ok))
         /\ pc' = IF ok THEN "del_list" ELSE PhaseAfter("delete")
    /\ UNCHANGED <<clock, remote, remote0, nextId, served, otherVars, edt, err, mainLocals, rerun, first, gsVars>>

\* delete_upcoming_events listing without its timeMin: the whole calendar
DeleteCutoffNone(t) == MinTime

\* The cutoff delete_upcoming_events hands to events().list
DeleteCutoff(t) == t

\* delete_upcoming_events: now, events().list; an empty list returns at once
DelList ==
    /\ pc = "del_list"
    /\ \E t \in clock..MaxTime, ok \in BOOLEAN :
         /\ clock' = t
         /\ now_del' = t
         /\ log' = Append(log, Request("list", 0, ok))
         /\ IF ok
            THEN /\ events' = Listing(Window(remote, DeleteCutoff(t)))
                 /\ pc' = IF events' = <<>> THEN PhaseAfter("delete") ELSE "del_loop"
            ELSE /\ events' = <<>>
                 /\ pc' = PhaseAfter("delete")
    /\ idx' = 1
    /\ total' = 0
    /\ UNCHANGED <<remote, remote0, nextId, served, otherVars, edt, err, now_add, comps, added_events_count,
                   rerun, first, gsVars>>

\* Where the delete loop of delete_upcoming_events goes after a failed request:
\* the HttpError leaves the loop and is caught by the function's except clause
DelOnError(i) == Len(events) + 1

\* delete_upcoming_events: one iteration of the delete loop
DelStep ==
    /\ pc = "del_loop"
    /\ idx <= Len(events)
    /\ \E ok \in BOOLEAN :
         /\ log' = Append(log, Request("delete", events[idx].id, ok))
         /\ IF ok
            THEN /\ remote' = DeleteEvent(remote, events[idx].id)
                 /\ total' = total + 1
                 /\ idx' = idx + 1
            ELSE /\ UNCHANGED <<remote, total>>
                 /\ idx' = DelOnError(idx)
    /\ pc' = IF idx' > Len(events) THEN PhaseAfter("delete") ELSE "del_loop"
    /\ UNCHANGED <<clock, remote0, nextId, served, otherVars, edt, err, now_del, events, now_add, comps,
                   added_events_count, rerun, first, gsVars>>

\* Calendar.walk(): the calendar itself, then its subcomponents
Walk(f) == <<RootComponent>> \o f

\* add_ics_events_to_google_calendar up to its loop: now, the user's email, the
\* ICS file opened and parsed; each of the last three may raise, nothing catches
AddInit ==
    /\ pc = "add_init"
    /\ \E t \in clock..MaxTime :
         /\ clock' = t
         /\ now_add' = t
    /\ \/ /\ err' = "EmailError"
          /\ pc' = "crashed"
          /\ UNCHANGED comps
       \/ /\ edt.state # "ics"
          /\ err' = "SourceError"
          /\ pc' = "crashed"
          /\ UNCHANGED comps
       \/ /\ edt.state = "ics"
          /\ comps' = Walk(edt.content)
          /\ pc' = "add_loop"
          /\ UNCHANGED err
    /\ idx' = 1
    /\ added_events_count' = 0
    /\ UNCHANGED <<remote, remote0, nextId, served, otherVars, edt, log, now_del, events, total, rerun, first,
                   gsVars>>

\* The test of main.py line 211
InWindowMain(c, now) == c.dtstart > now

\* What lines 210-211 raise on a VEVENT: component.get('dtstart') is None when
\* the property is missing (None.dt), and a date does not compare with the
\* date-time now
StartError(c) ==
    CASE c.value = "missing" -> "AttributeError"
      [] c.value = "date" -> "TypeError"
      [] OTHER -> "none"

\* The test of lines 232-233, made after an insert that succeeded
MaxReached(m, count) == m # Unset /\ count >= m

\* The insert loop with its try around the loop instead of inside it
AddOnErrorBreak(i) == Len(comps) + 1

\* Where the loop of add_ics_events_to_google_calendar goes after a failed
\* insert: the HttpError is caught inside the loop, which goes on
AddOnError(i) == i + 1

\* add_ics_events_to_google_calendar: one iteration of the loop over walk()
\* (main() passes no max_events, which is then None)
AddStep ==
    /\ pc = "add_loop"
    /\ idx <= Len(comps)
    /\ IF comps[idx].name = "VEVENT" /\ StartError(comps[idx]) # "none"
       THEN /\ err' = StartError(comps[idx])
            /\ pc' = "crashed"
            /\ UNCHANGED <<log, remote, nextId, added_events_count, idx>>
       ELSE /\ IF comps[idx].name = "VEVENT" /\ InWindowMain(comps[idx], now_add)
               THEN \E ok \in BOOLEAN :
                      /\ log' = Append(log, Request("insert", idx, ok))
                      /\ IF ok
                         THEN /\ remote' = InsertEvent(remote, comps[idx])
                              /\ nextId' = nextId + 1
                              /\ added_events_count' = added_events_count + 1
                              /\ idx' = IF MaxReached(max_events, added_events_count')
                                         THEN Len(comps) + 1
                                         ELSE idx + 1
                         ELSE /\ UNCHANGED <<remote, nextId, added_events_count>>
                              /\ idx' = AddOnError(idx)
               ELSE /\ UNCHANGED <<log, remote, nextId, added_events_count>>
                    /\ idx' = idx + 1
            /\ pc' = IF idx' > Len(comps) THEN PhaseAfter("add") ELSE "add_loop"
            /\ UNCHANGED err
    /\ UNCHANGED <<clock, remote0, served, otherVars, edt, now_del, events, total, now_add, comps,
                   rerun, first, gsVars>>

\* What a finished run leaves, for the comparison with the next run
RunSummary ==
    [count |-> Cardinality(remote), edt |-> edt, now_del |-> now_del,
     now_add |-> now_add, clean |-> pc = "done" /\ \A i \in 1..Len(log) : log[i].ok]

NoRun == [count |-> 0, edt |-> NoFile, now_del |-> Unset, now_add |-> Unset, clean |-> FALSE]

\* The script is run a second time, after a run that completed with no failed
\* request (the timetable server still hands out the same export)
Rerun ==
    /\ pc = "done"
    /\ \A i \in 1..Len(log) : log[i].ok
    /\ ~rerun
    /\ rerun' = TRUE
    /\ first' = RunSummary
    /\ pc' = "download"
    /\ remote0' = remote
    /\ log' = <<>>
    /\ err' = "none"
    /\ now_del' = Unset
    /\ now_add' = Unset
    /\ events' = <<>>
    /\ comps' = <<>>
    /\ idx' = 1
    /\ total' = 0
    /\ added_events_count' = 0
    /\ UNCHANGED <<clock, remote, nextId, served, otherVars, edt, gsVars>>

MainNext == Download \/ DelGet \/ DelList \/ DelStep \/ AddInit \/ AddStep \/ Rerun

\* ----------------------------------------------------- google_session.py
\* The timeMin delete_events_from_date hands to events().list
GSTimeMin(d) == d

\* delete_events_from_date(calendar_id, date): events().list; an HttpError
\* is not caught and reaches the caller
GSDeleteCall ==
    /\ pc = "gs_idle"
    /\ "delete_events_from_date" \notin called
    /\ called' = called \cup {"delete_events_from_date"}
    /\ remote0' = remote
    /\ \E d \in Cutoffs, ok \in BOOLEAN :
         /\ date' = d
         /\ log' = <<Request("list", 0, ok)>>
         /\ IF ok
            THEN /\ events' = Listing(Window(remote, GSTimeMin(d)))
                 /\ pc' = IF events' = <<>> THEN "gs_del_done" ELSE "gs_del_loop"
            ELSE /\ events' = <<>>
                 /\ pc' = "gs_del_done"
         /\ err' = IF ok THEN "none" ELSE "HttpError"
    /\ idx' = 1
    /\ UNCHANGED <<clock, remote, nextId, served, otherVars, edt, now_del, total, now_add, comps,
                   added_events_count, rerun, first, min_date, in_events, filtered_events>>

\* delete_events_from_date: one iteration; delete_event lets the HttpError out
GSDeleteStep ==
    /\ pc = "gs_del_loop"
    /\ idx <= Len(events)
    /\ \E ok \in BOOLEAN :
         /\ log' = Append(log, Request("delete", events[idx].id, ok))
         /\ IF ok
            THEN /\ remote' = DeleteEvent(remote, events[idx].id)
                 /\ idx' = idx + 1
                 /\ pc' = IF idx' > Len(events) THEN "gs_del_done" ELSE "gs_del_loop"
                 /\ UNCHANGED err
            ELSE /\ err' = "HttpError"
                 /\ pc' = "gs_del_done"
                 /\ UNCHANGED <<remote, idx>>
    /\ UNCHANGED <<clock, remote0, nextId, served, otherVars, edt, now_del, events, total, now_add,
                   comps, added_events_count, rerun, first, gsVars>>

\* The filter written as in main.py: the events that start after now
FilterEventsAfterNow(evts, m) == SelectSeq(evts, LAMBDA e : e.dtstart > clock)

\* The filter of import_events_to_calendar
FilterEvents(evts, m) == SelectSeq(evts, LAMBDA e : e.dtstart >= m)

\* import_events_to_calendar(events, calendar_id, min_date) up to its loop
GSImportCall ==
    /\ pc = "gs_idle"
    /\ "import_events_to_calendar" \notin called
    /\ called' = called \cup {"import_events_to_calendar"}
    /\ remote0' = remote
    /\ err' = "none"
    /\ log' = <<>>
    /\ \E evts \in EventLists, m \in Cutoffs :
         /\ in_events' = evts
         /\ min_date' = m
         /\ filtered_events' = FilterEvents(evts, m)
         /\ pc' = IF filtered_events' = <<>> THEN "gs_imp_done" ELSE "gs_imp_loop"
    /\ idx' = 1
    /\ UNCHANGED <<clock, remote, nextId, served, otherVars, edt, now_del, events, total, now_add,
                   comps, added_events_count, rerun, first, date>>

\* import_events_to_calendar: one iteration; add_event_to_calendar catches
\* and prints the HttpError
GSImportStep ==
    /\ pc = "gs_imp_loop"
    /\ idx <= Len(filtered_events)
    /\ \E ok \in BOOLEAN :
         /\ log' = Append(log, Request("insert", idx, ok))
         /\ IF ok
            THEN /\ remote' = InsertEvent(remote, filtered_events[idx])
                 /\ nextId' = nextId + 1
            ELSE UNCHANGED <<remote, nextId>>
    /\ idx' = idx + 1
    /\ pc' = IF idx' > Len(filtered_events) THEN "gs_imp_done" ELSE "gs_imp_loop"
    /\ UNCHANGED <<clock, remote0, served, otherVars, edt, err, now_del, events, total, now_add,
                   comps, added_events_count, rerun, first, gsVars>>

\* The method returns (or its exception reaches the caller): its locals are gone
GSReturn ==
    /\ pc \in {"gs_del_done", "gs_imp_done"}
    /\ pc' = "gs_idle"
    /\ events' = <<>>
    /\ idx' = 1
    /\ date' = Unset
    /\ min_date' = Unset
    /\ in_events' = <<>>
    /\ filtered_events' = <<>>
    /\ log' = <<>>
    /\ UNCHANGED <<clock, remote, remote0, nextId, served, otherVars, edt, err, now_del, total,
                   now_add, comps, added_events_count, rerun, first, called>>

GSNext == GSDeleteCall \/ GSDeleteStep \/ GSImportCall \/ GSImportStep \/ GSReturn

\* The other operations are not running
BodyIdle == component = <<>> /\ google_event = <<>>
CalIdle == calendars = {} /\ returned = {} /\ calls = 0
WaitIdle ==
    /\ directory = <<>>
    /\ initial_files = {}
    /\ wait_time = 0
    /\ elapsed_time = 0
    /\ file_path = {}

\* ---------------------------------------------------------- specification
Init ==
    /\ pc \in {"download", "gs_idle"}
    /\ clock = 1
    /\ remote \in InitialRemotes
    /\ remote0 = remote
    /\ nextId = MaxRemote + 1
    /\ served \in IF pc = "download" THEN {IcsFile(f) : f \in Files} \cup {Garbage}
                 ELSE {NoFile}
    /\ edt = NoFile
    /\ log = <<>>
    /\ err = "none"
    /\ now_del = Unset
    /\ events = <<>>
    /\ idx = 1
    /\ total = 0
    /\ now_add = Unset
    /\ comps = <<>>
    /\ added_events_count = 0
    /\ rerun = FALSE
    /\ first = NoRun
    /\ date = Unset
    /\ min_date = Unset
    /\ in_events = <<>>
    /\ filtered_events = <<>>
    /\ called = {}
    /\ max_events = Unset
    /\ BodyIdle /\ CalIdle /\ WaitIdle

Next == MainNext \/ GSNext

Spec == Init /\ [][Next]_vars

\* main() and the GoogleSession calls are not running
SyncIdle ==
    /\ clock = 1
    /\ remote = {}
    /\ remote0 = {}
    /\ nextId = MaxRemote + 1
    /\ served = NoFile
    /\ edt = NoFile
    /\ log = <<>>
    /\ err = "none"
    /\ now_del = Unset
    /\ events = <<>>
    /\ idx = 1
    /\ total = 0
    /\ now_add = Unset
    /\ comps = <<>>
    /\ added_events_count = 0
    /\ rerun = FALSE
    /\ first = NoRun
    /\ date = Unset
    /\ min_date = Unset
    /\ in_events = <<>>
    /\ filtered_events = <<>>
    /\ called = {}

\* ------------------------------------------ the body of a create request
\* Python values: None, and a string
PyNone == [type |-> "NoneType", text |-> ""]
PyStr(s) == [type |-> "str", text |-> s]

\* str(x)
Str(x) == IF x.type = "NoneType" THEN PyStr("None") ELSE x

\* dt.isoformat()
IsoFormat(t) == <<"isoformat", t>>

\* What component.get() gives for SUMMARY, LOCATION and DESCRIPTION: None
\* when the property is absent
Summaries == {PyNone, PyStr("CM Algorithms"), PyStr("CM Databases"), PyStr("XY Something")}
Locations == {PyNone, PyStr(""), PyStr("Amphi 1")}
Descriptions == {PyNone, PyStr(""), PyStr("Groupe A")}

\* The VEVENT components that pass the test of line 211
BodyComponents ==
    {c \in [summary : Summaries, location : Locations, description : Descriptions,
            dtstart : Times, dtend : Times] : c.dtstart <= c.dtend}

UserEmail == "user@example.org"

\* The dictionary of lines 212-227
GoogleEvent(c, user_email) ==
    [summary |-> c.summary,
     location |-> Str(c.location),
     description |-> c.description,
     start |-> [dateTime |-> IsoFormat(c.dtstart), timeZone |-> "UTC"],
     end |-> [dateTime |-> IsoFormat(c.dtend), timeZone |-> "UTC"],
     attendees |-> <<[email |-> user_email]>>]

\* add_ics_events_to_google_calendar builds the body of one insert request
BuildEvent ==
    /\ pc = "body_start"
    /\ google_event' = GoogleEvent(component, UserEmail)
    /\ pc' = "body_built"
    /\ UNCHANGED <<clock, remote, remote0, nextId, served, edt, log, err, mainLocals, rerun,
                   first, gsVars, max_events, component, calVars, waitVars>>

BodyInit ==
    /\ pc = "body_start"
    /\ SyncIdle
    /\ max_events = Unset
    /\ component \in BodyComponents
    /\ google_event = <<>>
    /\ CalIdle /\ WaitIdle

BodyNext == BuildEvent

BodySpec == BodyInit /\ [][BodyNext]_vars

\* ------------------------------------------------------- create_calendar
MaxCalls == 3

CalendarNames == {"EDT", "Perso"}

Calendar(i, n) == [id |-> i, summary |-> n]

\* The accounts a caller starts from: no two calendars of one name
InitialAccounts ==
    {{}, {Calendar(1, "EDT")}, {Calendar(1, "Perso")},
     {Calendar(1, "EDT"), Calendar(2, "Perso")}}

\* The id calendars().insert gives the new calendar
CreatedId(cals) == Cardinality(cals) + 1

\* create_calendar without its loop over the existing calendars
NamedNone(cals, name) == {}

\* The calendars the loop over calendarList().list() stops at
Named(cals, name) == {c \in cals : c.summary = name}

\* What a call gave back: main.py returns a message, which holds the id when
\* the calendar was created; GoogleSession returns the id
Returned(by, name, i) == [by |-> by, name |-> name, id |-> i]

\* One call of create_calendar; each of its two requests may fail, and the
\* HttpError then leaves the call
CreateCalendar(by) ==
    /\ pc = "cal_idle"
    /\ calls < MaxCalls
    /\ calls' = calls + 1
    /\ \E name \in CalendarNames :
         \/ /\ err' = "HttpError"
            /\ UNCHANGED <<calendars, returned>>
         \/ /\ Named(calendars, name) # {}
            /\ \E c \in Named(calendars, name) :
                 returned' = returned \cup
                     {Returned(by, name, IF by = "gs" THEN c.id ELSE Unset)}
            /\ err' = "none"
            /\ UNCHANGED calendars
         \/ /\ Named(calendars, name) = {}
            /\ calendars' = calendars \cup {Calendar(CreatedId(calendars), name)}
            /\ returned' = returned \cup {Returned(by, name, CreatedId(calendars))}
            /\ err' = "none"
    /\ UNCHANGED <<pc, clock, remote, remote0, nextId, served, edt, log, mainLocals, rerun,
                   first, gsVars, max_events, bodyVars, waitVars>>

MainCreateCalendar == CreateCalendar("main")

GSCreateCalendar == CreateCalendar("gs")

CalInit ==
    /\ pc = "cal_idle"
    /\ SyncIdle
    /\ max_events = Unset
    /\ calendars \in InitialAccounts
    /\ returned = {}
    /\ calls = 0
    /\ BodyIdle /\ WaitIdle

CalNext == MainCreateCalendar \/ GSCreateCalendar

CalSpec == CalInit /\ [][CalNext]_vars

\* ------------- add_ics_events_to_google_calendar called with max_events
\* The values a caller passes: None, or a number of events
MaxEvents == {Unset} \cup 0..MaxLocal

AddCallInit ==
    /\ pc = "add_init"
    /\ clock = 1
    /\ remote = {}
    /\ remote0 = remote
    /\ nextId = MaxRemote + 1
    /\ served = NoFile
    /\ edt \in {IcsFile(f) : f \in Files} \cup {Garbage}
    /\ log = <<>>
    /\ err = "none"
    /\ now_del = Unset
    /\ events = <<>>
    /\ idx = 1
    /\ total = 0
    /\ now_add = Unset
    /\ comps = <<>>
    /\ added_events_count = 0
    /\ rerun = FALSE
    /\ first = NoRun
    /\ date = Unset
    /\ min_date = Unset
    /\ in_events = <<>>
    /\ filtered_events = <<>>
    /\ called = {}
    /\ max_events \in MaxEvents
    /\ BodyIdle /\ CalIdle /\ WaitIdle

AddCallNext == AddInit \/ AddStep

AddCallSpec == AddCallInit /\ [][AddCallNext]_vars

\* ------------------------------------------------ waiting for the download
MaxWait == 2

\* A file name: how it starts and how it ends
FileName(stem, suffix) == [stem |-> stem, suffix |-> suffix]
StartsWith(f, x) == f.stem = x
EndsWith(f, x) == f.suffix = x

\* The names the browser writes: an export or another file, finished or still
\* being written
BrowserNames == {FileName(st, su) : st \in {"Edt", "export"}, su \in {".ics", ".crdownload"}}

EdtIcs == FileName("edt", ".ics")

Without(dir, f) == SelectSeq(dir, LAMBDA g : g # f)

\* The browser, which the program does not control: it starts writing a file,
\* finishes one (the rename gives it the latest change time), or writes one at
\* once; it may also never do any of this
BrowserStep ==
    /\ pc \in {"wait_loop", "dl_poll"}
    /\ \E f \in BrowserNames :
         \/ /\ ~(\E g \in Range(directory) : g.stem = f.stem)
            /\ directory' = Append(directory, f)
         \/ /\ f \in Range(directory)
            /\ EndsWith(f, ".crdownload")
            /\ ~(FileName(f.stem, ".ics") \in Range(directory))
            /\ directory' = Append(Without(directory, f), FileName(f.stem, ".ics"))
    /\ UNCHANGED <<syncVars, max_events, bodyVars, calVars, initial_files, wait_time,
                   elapsed_time, file_path>>

\* The test of wait_for_download, lines 112-114
Matches(f) == StartsWith(f, "Edt") /\ EndsWith(f, ".ics") /\ ~EndsWith(f, ".crdownload")

\* wait_for_download: one turn of its loop, or its end
WaitPoll ==
    /\ pc = "wait_loop"
    /\ IF elapsed_time < wait_time
       THEN IF \E f \in Range(directory) : Matches(f)
            THEN /\ \E f \in Range(directory) :
                      /\ Matches(f)
                      /\ file_path' = {f}
                 /\ pc' = "wait_returned"
                 /\ UNCHANGED elapsed_time
            ELSE /\ elapsed_time' = elapsed_time + 1
                 /\ UNCHANGED <<pc, file_path>>
       ELSE /\ file_path' = {}
            /\ pc' = "wait_returned"
            /\ UNCHANGED elapsed_time
    /\ UNCHANGED <<clock, remote, remote0, nextId, served, edt, log, err, mainLocals, rerun,
                   first, gsVars, max_events, bodyVars, calVars, directory, initial_files,
                   wait_time>>

\* download_ics_file up to its loop: the page or the button may fail, the
\* exception is caught and printed; else the directory is listed
DlStart ==
    /\ pc = "dl_start"
    /\ \/ /\ pc' = "dl_reported"
          /\ UNCHANGED initial_files
       \/ /\ initial_files' = Range(directory)
          /\ pc' = "dl_poll"
    /\ UNCHANGED <<clock, remote, remote0, nextId, served, edt, log, err, mainLocals, rerun,
                   first, gsVars, max_events, bodyVars, calVars, directory, wait_time,
                   elapsed_time, file_path>>

\* new_files of line 365, oldest first
NewFiles(dir, initial) == SelectSeq(dir, LAMBDA f : f \notin initial)

\* The condition the loop of lines 362-369 is left on
DownloadSeen(new_files) ==
    /\ new_files # <<>>
    /\ ~EndsWith(new_files[Len(new_files)], ".crdownload")

\* download_ics_file: one turn of `while True`, which has no other exit, and
\* the rename to edt.ics once the loop is left
DlPoll ==
    /\ pc = "dl_poll"
    /\ LET new_files == NewFiles(directory, initial_files)
           latest_file == new_files[Len(new_files)]
       IN IF DownloadSeen(new_files)
          THEN /\ directory' = Append(Without(Without(directory, EdtIcs), latest_file), EdtIcs)
               /\ pc' = "dl_done"
          ELSE UNCHANGED <<pc, directory>>
    /\ UNCHANGED <<clock, remote, remote0, nextId, served, edt, log, err, mainLocals, rerun,
                   first, gsVars, max_events, bodyVars, calVars, initial_files, wait_time,
                   elapsed_time, file_path>>

WaitInit ==
    /\ pc \in {"wait_loop", "dl_start"}
    /\ SyncIdle
    /\ max_events = Unset
    /\ BodyIdle /\ CalIdle
    /\ directory \in {<<>>, <<EdtIcs>>} \cup {<<f>> : f \in BrowserNames}
    /\ initial_files = {}
    /\ wait_time \in IF pc = "wait_loop" THEN 0..MaxWait ELSE {0}
    /\ elapsed_time = 0
    /\ file_path = {}

WaitNext == BrowserStep \/ WaitPoll \/ DlStart \/ DlPoll

\* Each loop goes on as long as it can; nothing makes the browser act
WaitSpec ==
    /\ WaitInit
    /\ [][WaitNext]_vars
    /\ WF_vars(WaitPoll) /\ WF_vars(DlStart) /\ WF_vars(DlPoll)

\* ------------------------------------------------------------- properties
\* The events (ids for delete, positions for insert) a request of kind op was issued for
Issued(op) == {log[j].ev : j \in {k \in 1..Len(log) : log[k].op = op}}

Failed(op) == \E j \in 1..Len(log) : log[j].op = op /\ ~log[j].ok

AllOk == \A j \in 1..Len(log) : log[j].ok

ListOk == \E j \in 1..Len(log) : log[j].op = "list" /\ log[j].ok

MainPcs == {"download", "del_get", "del_list", "del_loop", "add_init", "add_loop", "done",
            "crashed"}

AfterDelete == pc \in {"add_init", "add_loop", "done", "crashed"}

Before(cal, d) == {e \in cal : e.start < d}

\* Positions of the ICS events of walk() that start at or after d, and after d
LocalFrom(d) ==
    {i \in 1..Len(comps) :
        comps[i].name = "VEVENT" /\ comps[i].value = "datetime" /\ comps[i].dtstart >= d}
LocalAfter(d) ==
    {i \in 1..Len(comps) :
        comps[i].name = "VEVENT" /\ comps[i].value = "datetime" /\ comps[i].dtstart > d}

\* C1: when the delete request of one fetched event fails, a delete request is
\* still issued for every other fetched event, and the create phase still issues
\* a create request for every in-window local event.
C1_DeleteFailureIsolated ==
    /\ (AfterDelete /\ ListOk) => \A i \in 1..Len(events) : events[i].id \in Issued("delete")
    /\ (pc = "gs_del_done" /\ ListOk) =>
           \A i \in 1..Len(events) : events[i].id \in Issued("delete")
    /\ pc = "done" => LocalAfter(now_add) \subseteq Issued("insert")

\* C2: a run that ends with a source error (edt.ics cannot be opened or parsed)
\* has issued no delete request and no insert request.
C2_SourceErrorBeforeMutation ==
    err = "SourceError" => Issued("delete") = {} /\ Issued("insert") = {}

\* C3: when the query listing the remote events fails, no delete and no insert
\* request is issued afterwards, and the run ends with the error surfaced.
C3_QueryFailureFatal ==
    Failed("list") =>
        /\ Issued("delete") = {}
        /\ Issued("insert") = {}
        /\ pc \in {"done", "crashed", "gs_del_done"} => err # "none"

\* C4: the cutoff of the delete phase and the cutoff of the create phase of one
\* pass are the same value, so no local event is in the window of the first and
\* out of the window of the second.
C4_SingleCutoff ==
    (pc \in {"add_loop", "done"} /\ now_del # Unset /\ now_add # Unset) =>
        /\ now_del = now_add
        /\ \A i \in 1..Len(comps) :
               comps[i].name = "VEVENT" =>
                   ~(comps[i].dtstart >= now_del /\ comps[i].dtstart < now_add)

\* C5: after a run with cutoff D in which no request fails, the events selected
\* for creation are exactly the local events with start >= D (start = D
\* included), and each of them is in the remote calendar.
C5_CreatedFromCutoff ==
    /\ (pc = "done" /\ AllOk /\ now_del = now_add) =>
           /\ Issued("insert") = LocalFrom(now_add)
           /\ \A i \in LocalFrom(now_add) :
                  \E e \in remote :
                      e.summary = comps[i].summary /\ e.start = comps[i].dtstart
    /\ (pc = "gs_imp_done" /\ AllOk) =>
           \A i \in 1..Len(in_events) :
               in_events[i].dtstart >= min_date =>
                   \E e \in remote \ remote0 :
                       e.summary = in_events[i].summary /\ e.start = in_events[i].dtstart

\* The cutoff of a run of main(): the one of its delete phase, or, when that
\* phase ended before computing it, the one of its create phase
RunCutoff == IF now_del # Unset THEN now_del ELSE now_add

\* C6: a sync run with cutoff D leaves everything before D untouched: no remote
\* event with start < D is deleted, no local event with start < D is created,
\* and the remote events with start < D are the same as before the run.
C6_BeforeCutoffUntouched ==
    /\ pc \in MainPcs =>
           IF RunCutoff = Unset
           THEN remote = remote0
           ELSE /\ Before(remote, RunCutoff) = Before(remote0, RunCutoff)
                /\ \A i \in Issued("delete") :
                       \E e \in remote0 : e.id = i /\ e.start >= RunCutoff
                /\ \A i \in Issued("insert") : comps[i].dtstart >= RunCutoff
    /\ pc \in {"gs_del_loop", "gs_del_done"} =>
           /\ Before(remote, date) = Before(remote0, date)
           /\ \A i \in Issued("delete") : \E e \in remote0 : e.id = i /\ e.start >= date
    /\ pc \in {"gs_imp_loop", "gs_imp_done"} =>
           /\ Before(remote, min_date) = Before(remote0, min_date)
           /\ \A i \in Issued("insert") : filtered_events[i].dtstart >= min_date

\* A run that deleted and created events around an event before its cutoff
C6_Witness ==
    /\ pc = "done"
    /\ now_del # Unset
    /\ Before(remote0, now_del) # {}
    /\ Issued("delete") # {}
    /\ Issued("insert") # {}
    /\ AllOk

\* C7: a failed insert request is caught and does not stop the create loop: an
\* insert request is issued for every in-window local event, failed ones
\* before it or not, and no error leaves the phase.
C7_InsertFailureIsolated ==
    /\ Failed("insert") => err # "HttpError"
    /\ pc = "done" => Issued("insert") = LocalAfter(now_add)
    /\ pc = "gs_imp_done" => Issued("insert") = 1..Len(filtered_events)

\* A finished create phase with a failed insert followed by a later insert
C7_Witness ==
    /\ pc \in {"done", "gs_imp_done"}
    /\ \E j \in 1..Len(log), k \in 1..Len(log) :
           /\ j < k
           /\ log[j].op = "insert" /\ ~log[j].ok
           /\ log[k].op = "insert"

\* C8: in a run of main() the remote events are listed at most once and before
\* any delete request, and no insert request precedes a delete request.
C8_DeleteBeforeCreate ==
    pc \in MainPcs =>
        /\ Cardinality({j \in 1..Len(log) : log[j].op = "list"}) <= 1
        /\ \A j \in 1..Len(log) :
               log[j].op = "delete" =>
                   \E k \in 1..(j - 1) : log[k].op = "list" /\ log[k].ok
        /\ \A j \in 1..Len(log), k \in 1..Len(log) :
               (log[j].op = "insert" /\ log[k].op = "delete") => k < j

\* A finished run that deleted and then created
C8_Witness ==
    /\ pc = "done"
    /\ Issued("delete") # {}
    /\ Issued("insert") # {}

\* The second run had the ICS source and the window of the first, and no
\* request failed in either
SameRunAgain ==
    /\ rerun
    /\ pc = "done"
    /\ AllOk
    /\ first.clean
    /\ first.edt = edt
    /\ first.now_del = now_del
    /\ first.now_add = now_add

\* C9: with no failing request, the same ICS source and the same window, the
\* second run of the pipeline leaves as many remote events as the first.
C9_RerunSameCount == SameRunAgain => Cardinality(remote) = first.count

\* A second run that deleted the events the first created and created them again
C9_Witness ==
    /\ SameRunAgain
    /\ Issued("delete") # {}
    /\ Issued("insert") # {}
    /\ first.count > Cardinality(Issued("insert"))

FailedCount(op) == Cardinality({j \in 1..Len(log) : log[j].op = op /\ ~log[j].ok})

\* C11: a run that reaches the mutation phase completes, also when requests
\* fail, and its counts add up: deleted + deleteFailed is the number of remote
\* events selected for deletion, created + createFailed the number of local
\* events selected for creation.
C11_ReportCounts ==
    /\ (Issued("delete") # {} \/ Issued("insert") # {}) => pc # "crashed"
    /\ (AfterDelete /\ ListOk) => total + FailedCount("delete") = Len(events)
    /\ pc = "done" =>
           added_events_count + FailedCount("insert") = Cardinality(LocalAfter(now_add))

\* The date-time an all-day event of day d starts at: midnight of that day
Midnight(d) == d

\* C12: a component whose start is a date alone is handed to the create phase
\* as the date-time of its midnight, windowed and created like any other event,
\* and a component with a time of day keeps its value.
C12_DateOnlyNormalized ==
    /\ err # "TypeError"
    /\ pc \in MainPcs =>
         \A i \in Issued("insert") :
           /\ comps[i].value \in {"datetime", "date"}
           /\ \A e \in remote :
                  e.summary = comps[i].summary =>
                      e.start = IF comps[i].value = "date" THEN Midnight(comps[i].dtstart)
                                ELSE comps[i].dtstart
    /\ (pc = "done" /\ ~rerun) =>
           \A i \in 1..Len(comps) :
               (comps[i].value = "date" /\ Midnight(comps[i].dtstart) > now_add) =>
                   i \in Issued("insert")

\* C13: a malformed event component (no start) is skipped and does not abort the
\* pass: the run completes and every well-formed in-window component of the
\* file, before and after it, gets its insert request.
C13_MalformedSkipped ==
    /\ err # "AttributeError"
    /\ (pc = "done" /\ \E i \in 1..Len(comps) : comps[i] = NoStartEvent(comps[i].summary)) =>
           LocalAfter(now_add) \subseteq Issued("insert")

\* C14: when the location or the description of a component is absent, the
\* field of the created event is the empty string, not a null marker and not a
\* text that renders one.
C14_AbsentIsEmpty ==
    pc = "body_built" =>
        /\ component.location = PyNone => google_event.location = PyStr("")
        /\ component.description = PyNone => google_event.description = PyStr("")

\* C15: every create request carries a category, which depends on the first
\* two characters of the title only.
C15_CategoryCarried ==
    pc = "body_built" => "category" \in DOMAIN google_event

WithName(n) == {c \in calendars : c.summary = n}

\* C16: after any sequence of create_calendar calls the account holds at most
\* one calendar of each name, exactly one of a name a call returned for, and
\* every GoogleSession call for that name returned the id of that calendar.
C16_OneCalendarPerName ==
    \A n \in CalendarNames :
        /\ Cardinality(WithName(n)) <= 1
        /\ (\E r \in returned : r.name = n) => Cardinality(WithName(n)) = 1
        /\ \A r \in returned :
               (r.by = "gs" /\ r.name = n) => \A c \in WithName(n) : c.id = r.id

\* A call of main.py created the calendar, a later GoogleSession call with the
\* same name returned its id, and the account holds that one calendar
C16_Witness ==
    \E n \in CalendarNames :
        \E r \in returned :
            /\ r.by = "main" /\ r.name = n /\ r.id # Unset
            /\ Returned("gs", n, r.id) \in returned
            /\ WithName(n) = {Calendar(r.id, n)}
            /\ calls >= 2

\* The number of insert requests of this call that succeeded
Inserted == Cardinality({j \in 1..Len(log) : log[j].op = "insert" /\ log[j].ok})

\* C17: with a max_events that is not None, 0 included, one call makes at most
\* max_events successful insert requests, and a failed insert is not counted.
C17_MaxEventsRespected ==
    (pc \in {"add_loop", "done", "crashed"} /\ max_events # Unset) =>
        /\ added_events_count = Inserted
        /\ Inserted <= max_events

\* C18: waiting for the download always ends: wait_for_download makes at most
\* wait_time polls, and both it and download_ics_file eventually stop waiting,
\* also when no finished new file ever appears.
C18_WaitEnds ==
    /\ [](elapsed_time <= wait_time)
    /\ <>(pc \in {"wait_returned", "dl_done", "dl_reported"})

====
